---- MODULE Spec2Model ----
(***************************************************************************)
(* Model of backend/app.py: a Flask application with two fixed endpoints   *)
(* (hello, hello_image), the static-file rule that Flask installs for      *)
(* static_folder/static_url_path, and the catch-all view serve_react.      *)
(*                                                                         *)
(* Paths are sequences of segments ("a/b" is <<"a","b">>, "" is <<>>).     *)
(* The filesystem is a function from node locations to a kind.             *)
(***************************************************************************)
EXTENDS Naturals, Sequences, FiniteSets, TLC

\* ---------------------------------------------------------------- bounds
MaxSegs == 3

\* ------------------------------------------------------------ filesystem
\* Locations are given from the project directory (the parent of backend/).
BackendDir == <<"backend">>
DistDir == <<"dist">>
NoFile == <<"-">>

Nodes ==
  { <<"backend", "hello_world.png">>,
    <<"dist">>,
    <<"dist", "index.html">>,
    <<"dist", "app.js">>,
    <<"dist", "assets">>,
    <<"dist", "api">>,
    <<"dist", "api", "hello">>,
    <<"dist", "api", "hello-image">> }

DirNodes == { <<"dist">>, <<"dist", "assets">>, <<"dist", "api">> }

Parent(loc) == IF loc = <<>> THEN <<>> ELSE SubSeq(loc, 1, Len(loc) - 1)

\* kind of the node at a location: the project directory and backend/ (which
\* holds app.py itself) always exist
Kind(fs, loc) ==
  IF loc = <<>> \/ loc = BackendDir THEN "dir"
  ELSE IF loc = <<"backend", "app.py">> THEN "file"
  ELSE IF loc \in Nodes THEN fs[loc]
  ELSE "none"

FsStates ==
  { f \in [Nodes -> {"none", "file", "dir"}] :
      /\ \A n \in Nodes :
           /\ f[n] \in (IF n \in DirNodes THEN {"none", "dir"} ELSE {"none", "file"})
           /\ (f[n] # "none" /\ Parent(n) \in Nodes) => f[Parent(n)] = "dir"
      /\ (f[<<"dist", "api">>] = "dir") <=> (f[<<"dist", "api", "hello">>] = "file")
      /\ f[<<"dist", "api", "hello">>] = f[<<"dist", "api", "hello-image">>] }

\* The operating system's walk along a textual path, starting at the project
\* directory: every step needs the current node to be a directory, ".." goes
\* to the parent, a name goes to the child, which has to exist.
NoLoc == <<"?">>

RECURSIVE Walk(_, _, _)
Walk(fs, cur, segs) ==
  IF segs = <<>> THEN cur
  ELSE IF Kind(fs, cur) # "dir" THEN NoLoc
  ELSE IF Head(segs) = ".." THEN Walk(fs, Parent(cur), Tail(segs))
  ELSE IF Kind(fs, Append(cur, Head(segs))) = "none" THEN NoLoc
  ELSE Walk(fs, Append(cur, Head(segs)), Tail(segs))

Resolve(fs, p) == Walk(fs, <<>>, p)

\* os.path.exists / os.path.isfile
Exists(fs, p) == Resolve(fs, p) # NoLoc
IsFile(fs, p) == Resolve(fs, p) # NoLoc /\ Kind(fs, Resolve(fs, p)) = "file"

\* os.path.join of a directory and a relative path
Join(dir, p) == dir \o p

\* app.static_folder = join(dirname(__file__), "..", "dist")
static_folder == Join(BackendDir, <<"..", "dist">>)

\* posixpath.normpath of a relative path: lexical, no filesystem access
RECURSIVE NormAcc(_, _)
NormAcc(acc, segs) ==
  IF segs = <<>> THEN acc
  ELSE IF Head(segs) = ".." /\ acc # <<>> /\ acc[Len(acc)] # ".."
         THEN NormAcc(SubSeq(acc, 1, Len(acc) - 1), Tail(segs))
  ELSE NormAcc(Append(acc, Head(segs)), Tail(segs))

Normpath(p) == NormAcc(<<>>, p)

\* werkzeug safe_join: None when the normalised path climbs out
Unsafe(p) == Normpath(p) # <<>> /\ Normpath(p)[1] = ".."

safe_join(dir, p) == Join(dir, Normpath(p))

\* mimetypes.guess_type on the file name
MimeOf(loc) ==
  LET name == loc[Len(loc)]
  IN  CASE name = "index.html" -> "text/html"
        [] name = "app.js" -> "text/javascript"
        [] name = "hello_world.png" -> "image/png"
        [] OTHER -> "application/octet-stream"

\* ------------------------------------------------------------- responses
NotFound == [status |-> 404, body |-> "not_found", file |-> NoFile, mimetype |-> "text/html"]
ServerError == [status |-> 500, body |-> "server_error", file |-> NoFile, mimetype |-> "text/html"]
FileResponse(loc, mime) == [status |-> 200, body |-> "file", file |-> loc, mimetype |-> mime]

\* mutant: the path is joined without the check that it stays inside dir
send_from_directory_NoSafeJoin(fs, dir, p) ==
  IF ~IsFile(fs, Join(dir, p)) THEN NotFound
  ELSE FileResponse(Resolve(fs, Join(dir, p)), MimeOf(Resolve(fs, Join(dir, p))))

\* mutant: a missing file is not turned into NotFound, the open fails instead
send_from_directory_Raises(fs, dir, p) ==
  IF Unsafe(p) THEN NotFound
  ELSE IF ~IsFile(fs, safe_join(dir, p)) THEN ServerError
  ELSE FileResponse(Resolve(fs, safe_join(dir, p)), MimeOf(Resolve(fs, safe_join(dir, p))))

send_from_directory(fs, dir, p) ==
  IF Unsafe(p) THEN NotFound
  ELSE IF ~IsFile(fs, safe_join(dir, p)) THEN NotFound
  ELSE FileResponse(Resolve(fs, safe_join(dir, p)), MimeOf(Resolve(fs, safe_join(dir, p))))

\* send_file stats and opens the path itself: a missing file raises
\* FileNotFoundError, which Flask turns into a 500 response
send_file(fs, p, mime) ==
  IF IsFile(fs, p) THEN FileResponse(Resolve(fs, p), mime) ELSE ServerError

\* -------------------------------------------------------------- handlers
hello == [status |-> 200, body |-> "json:{message:Hello from Flask!}", file |-> NoFile,
          mimetype |-> "application/json"]

image_path == Join(BackendDir, <<"hello_world.png">>)

hello_image(fs) == send_file(fs, image_path, "image/png")

\* what a view hands back: the response, and the os.path.exists calls made
Reply(probes, result) == [probes |-> probes, result |-> result]

\* mutant: the existing-file branch is lost, index.html is always served
serve_react_AlwaysFallback(fs, path) ==
  Reply(IF path = <<>> THEN <<>> ELSE <<Join(static_folder, path)>>,
        send_from_directory(fs, static_folder, <<"index.html">>))

\* mutant: `path and` is dropped, os.path.exists alone decides
serve_react_NoEmptyTest(fs, path) ==
  IF Exists(fs, Join(static_folder, path))
    THEN Reply(<<Join(static_folder, path)>>, send_from_directory(fs, static_folder, path))
    ELSE Reply(<<Join(static_folder, path)>>, send_from_directory(fs, static_folder, <<"index.html">>))

\* mutant: the existing file is sent with send_file(file_path)
serve_react_SendFile(fs, path) ==
  IF path = <<>>
    THEN Reply(<<>>, send_from_directory(fs, static_folder, <<"index.html">>))
  ELSE IF Exists(fs, Join(static_folder, path))
    THEN Reply(<<Join(static_folder, path)>>,
               send_file(fs, Join(static_folder, path), "application/octet-stream"))
  ELSE Reply(<<Join(static_folder, path)>>, send_from_directory(fs, static_folder, <<"index.html">>))

\* `path and os.path.exists(file_path)`: the test is not evaluated for ""
serve_react(fs, path) ==
  IF path = <<>>
    THEN Reply(<<>>, send_from_directory(fs, static_folder, <<"index.html">>))
  ELSE IF Exists(fs, Join(static_folder, path))
    THEN Reply(<<Join(static_folder, path)>>, send_from_directory(fs, static_folder, path))
  ELSE Reply(<<Join(static_folder, path)>>, send_from_directory(fs, static_folder, <<"index.html">>))

\* Flask's view for the static rule: send_static_file
send_static_file(fs, filename) == send_from_directory(fs, static_folder, filename)

\* --------------------------------------------------------------- routing
\* URL rules, in the order the module registers them
StaticRule == [rule |-> "/<path:filename>", endpoint |-> "static"]
HelloRule == [rule |-> "/api/hello", endpoint |-> "hello"]
HelloImageRule == [rule |-> "/api/hello-image", endpoint |-> "hello_image"]
ServeReactPathRule == [rule |-> "/<path:path>", endpoint |-> "serve_react"]
ServeReactRootRule == [rule |-> "/", endpoint |-> "serve_react"]

HelloPath == <<"api", "hello">>
HelloImagePath == <<"api", "hello-image">>

IsLiteralRule(r) == r.rule \in {"/api/hello", "/api/hello-image", "/"}

Matches(r, p) ==
  CASE r.rule = "/api/hello" -> p = HelloPath
    [] r.rule = "/api/hello-image" -> p = HelloImagePath
    [] r.rule = "/" -> p = <<>>
    [] OTHER -> p # <<>>

MinOf(S) == CHOOSE i \in S : \A j \in S : i <= j

\* mutant: registration order alone decides
MatchEndpoint_RegistrationOrder(rs, p) ==
  LET idx == {i \in 1..Len(rs) : Matches(rs[i], p)}
  IN  IF idx = {} THEN "none" ELSE rs[MinOf(idx)].endpoint

\* the URL map's choice: rules without a converter are tried before rules
\* with one; among equals the rule registered first wins
MatchEndpoint(rs, p) ==
  LET idx == {i \in 1..Len(rs) : Matches(rs[i], p)}
      lit == {i \in idx : IsLiteralRule(rs[i])}
  IN  IF idx = {} THEN "none"
      ELSE IF lit # {} THEN rs[MinOf(lit)].endpoint
      ELSE rs[MinOf(idx)].endpoint

\* ----------------------------------------------------------------- state
VARIABLES fs, mode, pc, routes, req, resp

vars == <<fs, mode, pc, routes, req, resp>>

Segs == {"..", "dist", "backend", "hello_world.png", "index.html", "app.js", "assets", "nope"}

RECURSIVE SeqsUpTo(_)
SeqsUpTo(n) ==
  IF n = 0 THEN {<<>>}
  ELSE LET prev == SeqsUpTo(n - 1)
       IN  prev \cup {Append(s, x) : s \in {t \in prev : Len(t) = n - 1}, x \in Segs}

Paths == SeqsUpTo(MaxSegs) \cup {HelloPath, HelloImagePath}

Queries == {"", "name=x"}

NoReq == [path |-> NoFile, query |-> "", via |-> "none"]
NoResp == [endpoint |-> "none", probes |-> <<>>, result |-> NotFound]

Answer(endpoint, reply) ==
  [endpoint |-> endpoint, probes |-> reply.probes, result |-> reply.result]

\* one request through the URL map and the view it selects; no rule: 404
Handle(rs, f, p) ==
  LET e == MatchEndpoint(rs, p)
  IN  CASE e = "hello" -> Answer(e, Reply(<<>>, hello))
        [] e = "hello_image" -> Answer(e, Reply(<<>>, hello_image(f)))
        [] e = "static" -> Answer(e, Reply(<<>>, send_static_file(f, p)))
        [] e = "serve_react" -> Answer(e, serve_react(f, p))
        [] OTHER -> Answer("none", Reply(<<>>, NotFound))

\* app = Flask(..., static_folder=..., static_url_path=""): the constructor
\* registers the static rule; the module body has run up to line 14
Init ==
  /\ fs \in FsStates
  /\ mode \in {"main", "import"}
  /\ pc = "reg_hello"
  /\ routes = <<StaticRule>>
  /\ req = NoReq
  /\ resp = NoResp

RegisterHello ==
  /\ pc = "reg_hello"
  /\ routes' = Append(routes, HelloRule)
  /\ pc' = "reg_hello_image"
  /\ UNCHANGED <<fs, mode, req, resp>>

RegisterHelloImage ==
  /\ pc = "reg_hello_image"
  /\ routes' = Append(routes, HelloImageRule)
  /\ pc' = "main_guard"
  /\ UNCHANGED <<fs, mode, req, resp>>

\* if __name__ == "__main__": app.run(...) blocks in the server loop
MainGuard ==
  /\ pc = "main_guard"
  /\ pc' = IF mode = "main" THEN "run" ELSE "reg_serve_react"
  /\ UNCHANGED <<fs, mode, routes, req, resp>>

\* the server loop ends (interrupt); the module body continues below it
RunReturns ==
  /\ pc = "run"
  /\ req = NoReq
  /\ pc' = "reg_serve_react"
  /\ UNCHANGED <<fs, mode, routes, req, resp>>

\* the inner decorator ("/<path:path>") is applied first, then "/"
RegisterServeReact ==
  /\ pc = "reg_serve_react"
  /\ routes' = routes \o <<ServeReactPathRule, ServeReactRootRule>>
  /\ pc' = "loaded"
  /\ UNCHANGED <<fs, mode, req, resp>>

\* requests are accepted inside app.run, or, for an imported module, by the
\* host that imported it once the module body has finished
Serving == (mode = "main" /\ pc = "run") \/ (mode = "import" /\ pc = "loaded")

\* the server loop takes one request at a time: it is answered (Request) and
\* the connection is finished (Finish) before the next one is read
Request ==
  /\ Serving
  /\ req = NoReq
  /\ \E p \in Paths, q \in Queries :
       /\ req' = [path |-> p, query |-> q, via |-> "http"]
       /\ resp' = Handle(routes, fs, p)
  /\ UNCHANGED <<fs, mode, pc, routes>>

Finish ==
  /\ req # NoReq
  /\ req' = NoReq
  /\ resp' = NoResp
  /\ UNCHANGED <<fs, mode, pc, routes>>

Next ==
  \/ RegisterHello
  \/ RegisterHelloImage
  \/ MainGuard
  \/ RunReturns
  \/ RegisterServeReact
  \/ Request
  \/ Finish

Spec == Init /\ [][Next]_vars

\* ---------------------------------------------------- the view on its own
\* serve_react applied to any path and filesystem, as the function it is
InitView ==
  /\ fs \in FsStates
  /\ mode = "import"
  /\ pc = "loaded"
  /\ routes = <<StaticRule, HelloRule, HelloImageRule, ServeReactPathRule, ServeReactRootRule>>
  /\ req = NoReq
  /\ resp = NoResp

CallServeReact ==
  /\ req = NoReq
  /\ \E p \in Paths :
       /\ req' = [path |-> p, query |-> "", via |-> "call"]
       /\ resp' = Answer("serve_react", serve_react(fs, p))
  /\ UNCHANGED <<fs, mode, pc, routes>>

NextView == CallServeReact \/ Finish

SpecView == InitView /\ [][NextView]_vars

\* ---------------------------------------------------------------- claims
R == resp.result
ViaCall == req.via = "call"
ViaHttp == req.via = "http"
IndexLoc == <<"dist", "index.html">>
HasIndex == Kind(fs, IndexLoc) = "file"
ServedIndex == R.status = 200 /\ R.body = "file" /\ R.file = IndexLoc
Refused == R.status = 404 /\ R.body = "not_found" /\ R.file = NoFile

\* where the operating system finds join(AssetRoot, p), and what is there
Target(p) == Resolve(fs, Join(static_folder, p))
FileAt(p) == IsFile(fs, Join(static_folder, p))
Beneath(loc) == loc # NoLoc /\ Len(loc) > Len(DistDir) /\ SubSeq(loc, 1, Len(DistDir)) = DistDir
\* p climbs out of Asset Root once its ".." segments are normalised
ClimbsOut(p) == Normpath(p) # <<>> /\ Head(Normpath(p)) = ".."

C2_UnknownPathGetsFallback ==
  (ViaHttp /\ HasIndex /\ req.path \notin {HelloPath, HelloImagePath} /\ ~FileAt(req.path))
  => ServedIndex

\* C3: whatever the path and the filesystem, a file serve_react returns lies
\* beneath Asset Root: it is the file at p or index.html; a response that is
\* not a file carries no file at all.
C3_ServedFileIsBeneathAssetRoot ==
  ViaCall =>
    /\ R.body = "file" =>
         /\ Beneath(R.file)
         /\ Kind(fs, R.file) = "file"
         /\ R.file = IndexLoc \/ (req.path # <<>> /\ R.file = Target(req.path))
    /\ R.body # "file" => R.file = NoFile

C3_Witness ==
  /\ ViaCall
  /\ ClimbsOut(req.path)
  /\ FileAt(req.path)
  /\ ~Beneath(Target(req.path))
  /\ Refused

\* C4: GET /api/hello-image is answered 200 with hello_world.png as image/png
\* when the file is there, and 404 when it is not.
C4_HelloImageOr404 ==
  (ViaHttp /\ req.path = HelloImagePath)
  => IF IsFile(fs, image_path)
       THEN R.status = 200 /\ R.file = <<"backend", "hello_world.png">> /\ R.mimetype = "image/png"
       ELSE R.status = 404

C6_MissingFallbackIs404 ==
  (ViaCall /\ ~HasIndex)
  => /\ R.status \in {200, 404}
     /\ req.path = <<>> => Refused
     /\ ~FileAt(req.path) => Refused
     /\ (req.path # <<>> /\ ~ClimbsOut(req.path) /\ FileAt(req.path))
          => R.status = 200 /\ R.file = Target(req.path)

C6_Witness ==
  /\ ViaCall
  /\ ~HasIndex
  /\ Kind(fs, DistDir) = "dir"
  /\ Kind(fs, <<"dist", "app.js">>) = "file"
  /\ req.path = <<"nope">>
  /\ Refused

\* C7: GET /api/hello is answered by hello with 200 and the fixed JSON body,
\* whatever the query string, the filesystem and the requests before it.
C7_HelloIsConstant ==
  (ViaHttp /\ req.path = HelloPath)
  => /\ resp.endpoint = "hello"
     /\ R.status = 200
     /\ R.body = "json:{message:Hello from Flask!}"
     /\ R.mimetype = "application/json"
     /\ R.file = NoFile

C7_Witness ==
  /\ ViaHttp
  /\ req.path = HelloPath
  /\ req.query = "name=x"
  /\ Kind(fs, <<"dist", "api", "hello">>) = "file"
  /\ ~HasIndex
  /\ R.status = 200

C9_DispatchTable ==
  ViaHttp =>
    resp.endpoint = (IF req.path = HelloPath THEN "hello"
                     ELSE IF req.path = HelloImagePath THEN "hello_image"
                     ELSE "serve_react")

\* C10: run as the entry point, the server never accepts requests before
\* serve_react is registered for "/" and "/<path>".
C10_RegisteredBeforeListening ==
  (mode = "main" /\ Serving)
  => /\ \E i \in 1..Len(routes) : routes[i] = ServeReactPathRule
     /\ \E i \in 1..Len(routes) : routes[i] = ServeReactRootRule
     /\ MatchEndpoint(routes, <<>>) = "serve_react"

====
